---- MODULE Spec2Model ----
(***************************************************************************)
(* Download-and-persist core of the Multi-Service Avatar Downloader:       *)
(*   - hashing / identity   (file_hash, is_identical_file,                 *)
(*                           identical_or_same_size_file)                  *)
(*   - file placer          (find_next_available_file_path,                *)
(*                           save_contents_to_file)                        *)
(*   - fetcher              (download_url_to_raw, download_url_to_bytes,   *)
(*                           download_url_to_json)                         *)
(* all in src/common_downloader_functions.py, together with                *)
(*   - image splitting      (split_image_into_frames)                      *)
(* and the per-item handlers of the service downloaders (GTA Online, Mii,  *)
(* Roblox) that call them.                                                 *)
(***************************************************************************)
EXTENDS Integers, Sequences, FiniteSets, TLC

(***************************************************************************)
(* Bounds of the model.                                                    *)
(***************************************************************************)
\* longest byte buffer / file content
MaxLen == 2
\* bytes returned by one f.read(): the code reads 4096 at a time, the model
\* scales the chunk down so that a file of MaxLen bytes takes several reads
ChunkSize == 1
\* numbered slots of one base name that the folder can hold:
\* slot 1 is folder/file_name, slot k >= 2 is folder/base_k.ext
MaxSlot == 3
\* find-then-save rounds in one run that starts from an empty folder
MaxCalls == 3
\* largest width and height of an image to split, next to the 120 and 480
\* pixel sides of the strips the services send
MaxDim == 4
\* largest frame_count
MaxFrames == 4
\* handler calls a service's loops start in one run
MaxItems == 3
\* Pending answers the thumbnails API gives for one item
MaxPolls == 2
\* longest MIIS list
MaxMiis == 1
\* len(MII_POSES), len(MII_EXPRESSIONS), len(MII_SHADINGS): 3, 19 and 3 in the
\* program, scaled down so that a whole run fits in MaxItems handler calls
NumPoses == 1
NumExpressions == 1
NumShadings == 2

Byte == {0, 1}

\* every byte buffer of at most MaxLen bytes
Bytes == UNION {[1..n -> Byte] : n \in 0..MaxLen}

Slots == 1..MaxSlot

(***************************************************************************)
(* The file system under one folder and one desired file name.             *)
(* A file is a record; a missing file is NoFile.                           *)
(***************************************************************************)
NoFile == [exists |-> FALSE, data |-> <<>>]

File(b) == [exists |-> TRUE, data |-> b]

Files == {NoFile} \cup {File(b) : b \in Bytes}

\* A file argument of the identity functions: a path (str | Path) or bytes.
PathArg(k) == [kind |-> "path", slot |-> k, data |-> <<>>]

BytesArg(b) == [kind |-> "bytes", slot |-> 0, data |-> b]

IsPath(f) == f.kind = "path"

\* os.path.exists / Path.exists: slots past MaxSlot are outside the model and
\* are never probed (the actions are guarded by the scan staying in range)
Exists(fsys, k) == k \in Slots /\ fsys[k].exists

\* os.path.getsize
GetSize(fsys, k) == Len(fsys[k].data)

(***************************************************************************)
(* hashlib.md5: an object that absorbs bytes; the digest is a function of  *)
(* everything absorbed, in order. The model's digest folds byte by byte    *)
(* into a number (bijective base-|Byte|+1 numeration), so two different    *)
(* byte sequences never share a digest, as MD5 is used by the program.     *)
(***************************************************************************)
Md5New == 0

RECURSIVE Md5Update(_, _)
Md5Update(h, data) ==
    IF data = <<>> THEN h
    ELSE Md5Update(h * (Cardinality(Byte) + 1) + Head(data) + 1, Tail(data))

\* hexdigest(): the digest written in hexadecimal, most significant digit first
RECURSIVE Md5Hexdigest(_)
Md5Hexdigest(h) == IF h < 16 THEN <<h>> ELSE Append(Md5Hexdigest(h \div 16), h % 16)

\* hashlib.md5(data)
Md5(data) == Md5Update(Md5New, data)

\* for chunk in iter(lambda: f.read(4096), b""): the chunks read until b""
RECURSIVE ReadChunks(_)
ReadChunks(data) ==
    IF data = <<>> THEN <<>>
    ELSE IF Len(data) <= ChunkSize THEN <<data>>
    ELSE <<SubSeq(data, 1, ChunkSize)>> \o ReadChunks(SubSeq(data, ChunkSize + 1, Len(data)))

\* file_hash: bytes are hashed whole; for a path, every chunk is fed to a
\* fresh hashlib.md5() that is dropped at once, and the digest returned is
\* that of yet another fresh hashlib.md5()
FileHash(fsys, f) ==
    IF ~IsPath(f) THEN Md5Hexdigest(Md5(f.data))
    ELSE LET chunks == ReadChunks(fsys[f.slot].data)
             dropped == [i \in 1..Len(chunks) |-> Md5Update(Md5New, chunks[i])]
         IN  Md5Hexdigest(Md5New)

\* isinstance(file, str) and not os.path.exists(file)
MissingPath(fsys, f) == IsPath(f) /\ ~Exists(fsys, f.slot)

\* faulty variant: the guard looks at file_1 only
EitherMissingFirstOnly(fsys, f1, f2) == MissingPath(fsys, f1)

\* the guard that opens is_identical_file
EitherMissing(fsys, f1, f2) == MissingPath(fsys, f1) \/ MissingPath(fsys, f2)

\* os.path.getsize and open raise FileNotFoundError on a path with no file:
\* is_identical_file raises when it gets past its guard with such a path
IsIdenticalFileRaises(fsys, f1, f2) ==
    ~EitherMissing(fsys, f1, f2) /\ (MissingPath(fsys, f1) \/ MissingPath(fsys, f2))

\* is_identical_file
IsIdenticalFile(fsys, f1, f2, sizeOnly) ==
    IF EitherMissing(fsys, f1, f2)
    THEN FALSE
    ELSE LET size1 == IF IsPath(f1) THEN GetSize(fsys, f1.slot) ELSE Len(f1.data)
             hash1 == IF IsPath(f1) THEN FileHash(fsys, f1) ELSE Md5Hexdigest(Md5(f1.data))
             size2 == IF IsPath(f2) THEN GetSize(fsys, f2.slot) ELSE Len(f2.data)
             hash2 == IF IsPath(f2) THEN FileHash(fsys, f2) ELSE Md5Hexdigest(Md5(f2.data))
         IN  IF sizeOnly THEN size1 = size2 ELSE hash1 = hash2

\* faulty variant: a size match counts only when the hashes match too
IdenticalOrSameSizeFileStrict(fsys, f1, f2) ==
    IsIdenticalFile(fsys, f1, f2, TRUE) /\ IsIdenticalFile(fsys, f1, f2, FALSE)

\* identical_or_same_size_file: both branches under the size test return True
IdenticalOrSameSizeFile(fsys, f1, f2) ==
    IF IsIdenticalFile(fsys, f1, f2, TRUE)
    THEN IF IsIdenticalFile(fsys, f1, f2, FALSE) THEN TRUE ELSE TRUE
    ELSE FALSE

(***************************************************************************)
(* State.                                                                  *)
(***************************************************************************)
VARIABLES
    fs,            \* slot -> file: the files of one base name in the folder
    folderExists,  \* the target folder exists on disk
    pc,            \* "idle": between items; "found": a path was computed, save pending
    content,       \* file_content of the round under way
    takeOver,      \* suffix_on_original_file_and_take_its_spot of that round
    ret,           \* what find_next_available_file_path returned (None or a slot)
    probed,        \* the slots that call examined with exists(), in order
    renamed,       \* <<from, to>> when that call did os.rename, else <<>>
    saved,         \* the save of the round: "pending", "written", "refused", "skipped" (no path)
    fs0,           \* the files as they were when that call was entered
    hist,          \* the rounds of this run: [content, takeOver, ret]
    fpc,           \* download_url_to_raw: "idle", "loop" (at the while test), "sleep"
    wrapper,       \* the function the caller called: "raw", "bytes" or "json"
    retries,       \* the local `retries`
    gets,          \* requests.get calls issued by the call under way
    waits,         \* the time.sleep durations of the call under way, in order
    waitSeconds,   \* `wait_seconds` of the sleep about to happen
    log,           \* the responses the call under way received, in order
    outcome,       \* of download_url_to_raw: "running", "response", "None", "raised"
    result,        \* of the wrapper: "running", "response", "content", "json", "None", "raised"
    prevRetries,   \* `retries` as the previous call left it
    op,            \* the library function called directly, "none" before the call
    cmp,           \* a comparison call: its arguments, the value returned, whether it raised
    saveOverwrite, \* `overwrite` of a direct save_contents_to_file call
    img,           \* a split_image_into_frames call: the image's size and frame_count
    frames,        \* the crop boxes (left, upper, right, lower) of the frames it returned
    service,       \* the downloader that runs: "none", "gta", "mii", "mii_legacy", "roblox"
    rpc,           \* position of the run: "items" (between handler calls), "rotating"
                   \* (the frames=16 call is due), "polling" (image state was Pending),
                   \* "image" (an image URL was obtained), "aborted" (an exception
                   \* reached the top level)
    items,         \* handler calls started from the service's loops so far
    advances,      \* progress.update(task, advance=1) calls so far
    polls,         \* _get_image_url_from_roblox_api calls of the item under way
    item,          \* the handler call under way or last ended
    saveFrames,    \* MII_SAVE_ROTATING_FRAMES
    saveGifs,      \* MII_SAVE_ROTATING_GIFS
    saveHd,        \* MII_SAVE_HD_IMAGES
    miis,          \* MIIS: for each entry, whether it can be fetched from the Nintendo
                   \* servers (sd) and from the HD renderer (hd)
    failures       \* handler calls that ended in a failure so far

placerVars == <<fs, folderExists, pc, content, takeOver, ret, probed, renamed, saved, fs0, hist>>

fetchVars == <<fpc, wrapper, retries, gets, waits, waitSeconds, log, outcome, result, prevRetries>>

callVars == <<op, cmp, saveOverwrite, img, frames>>

runVars == <<service, rpc, items, advances, polls, item, saveFrames, saveGifs, saveHd, miis, failures>>

vars == <<placerVars, fetchVars, callVars, runVars>>

\* find_next_available_file_path returns None
None == 0

EmptyFolder == [k \in Slots |-> NoFile]

(***************************************************************************)
(* find_next_available_file_path                                           *)
(***************************************************************************)
\* faulty variant: the loop takes the first suffix without testing that it is free
ProbeSuffixesBlind(fsys, c, suffix, seen) ==
    [kind |-> "open", slot |-> suffix, probed |-> Append(seen, suffix)]

\* faulty variant: the loop tests only for a free suffix, never for a duplicate
RECURSIVE ProbeSuffixesNoDup(_, _, _, _)
ProbeSuffixesNoDup(fsys, c, suffix, seen) ==
    IF suffix > MaxSlot
    THEN [kind |-> "out", slot |-> suffix, probed |-> seen]
    ELSE IF ~Exists(fsys, suffix)
    THEN [kind |-> "open", slot |-> suffix, probed |-> Append(seen, suffix)]
    ELSE ProbeSuffixesNoDup(fsys, c, suffix + 1, Append(seen, suffix))

\* the `while True` loop entered with `suffix`; seen = the slots examined so far.
\* kind "open": new_file_path does not exist; "dup": identical_or_same_size_file
\* held; "out": the loop ran past the slots of the model.
RECURSIVE ProbeSuffixes(_, _, _, _)
ProbeSuffixes(fsys, c, suffix, seen) ==
    IF suffix > MaxSlot
    THEN [kind |-> "out", slot |-> suffix, probed |-> seen]
    ELSE IF ~Exists(fsys, suffix)
    THEN [kind |-> "open", slot |-> suffix, probed |-> Append(seen, suffix)]
    ELSE IF IdenticalOrSameSizeFile(fsys, PathArg(suffix), BytesArg(c))
    THEN [kind |-> "dup", slot |-> suffix, probed |-> Append(seen, suffix)]
    ELSE ProbeSuffixes(fsys, c, suffix + 1, Append(seen, suffix))

\* faulty variant: the duplicate test on file_path itself is left out
FindDecisionNoDup(fsys, c) ==
    IF ~Exists(fsys, 1)
    THEN [kind |-> "direct", slot |-> 1, probed |-> <<1>>]
    ELSE ProbeSuffixes(fsys, c, 2, <<1>>)

\* faulty variant: file_path counts as a duplicate only when its bytes are the content's
FindDecisionByBytes(fsys, c) ==
    IF ~Exists(fsys, 1)
    THEN [kind |-> "direct", slot |-> 1, probed |-> <<1>>]
    ELSE IF fsys[1].data = c
    THEN [kind |-> "dup", slot |-> 1, probed |-> <<1>>]
    ELSE ProbeSuffixes(fsys, c, 2, <<1>>)

\* the tests on file_path, then the loop from suffix = 2
FindDecision(fsys, c) ==
    IF ~Exists(fsys, 1)
    THEN [kind |-> "direct", slot |-> 1, probed |-> <<1>>]
    ELSE IF IdenticalOrSameSizeFile(fsys, PathArg(1), BytesArg(c))
    THEN [kind |-> "dup", slot |-> 1, probed |-> <<1>>]
    ELSE ProbeSuffixes(fsys, c, 2, <<1>>)

\* faulty variant: the file is copied to dst and stays at src
OsRenameCopy(fsys, src, dst) == [fsys EXCEPT ![dst] = fsys[src]]

\* os.rename(src, dst): dst takes the file of src, src is gone (POSIX: a file
\* already at dst is replaced)
OsRename(fsys, src, dst) == [fsys EXCEPT ![dst] = fsys[src], ![src] = NoFile]

\* faulty variant: a duplicate's own path is returned instead of None
FindReturnDupPath(d, t) ==
    CASE d.kind = "direct" -> 1
      [] d.kind = "dup"    -> d.slot
      [] d.kind = "open"   -> IF t THEN 1 ELSE d.slot

\* faulty variant: a free suffix is found and file_path is returned all the same
FindReturnOccupied(d, t) ==
    CASE d.kind = "direct" -> 1
      [] d.kind = "dup"    -> None
      [] d.kind = "open"   -> 1

\* the value returned for a decision
FindReturn(d, t) ==
    CASE d.kind = "direct" -> 1
      [] d.kind = "dup"    -> None
      [] d.kind = "open"   -> IF t THEN 1 ELSE d.slot

\* faulty variant: the take-over branch forgets the rename
FindEffectNoRename(fsys, d, t) == fsys

\* faulty variant: the rename is done whatever the take-over setting
FindEffectAlwaysRename(fsys, d, t) ==
    IF d.kind = "open" THEN OsRename(fsys, 1, d.slot) ELSE fsys

\* the files after the call: only the take-over branch renames
FindEffect(fsys, d, t) ==
    IF d.kind = "open" /\ t THEN OsRename(fsys, 1, d.slot) ELSE fsys

\* the os.rename the call did, as <<from, to>>, or <<>>
FindRename(d, t) == IF d.kind = "open" /\ t THEN <<1, d.slot>> ELSE <<>>

\* what a find_next_available_file_path call does to the placer's state
FindCall(c, t) ==
    LET d == FindDecision(fs, c) IN
    /\ pc = "idle"
    /\ d.kind # "out"
    /\ folderExists' = TRUE                      \* os.makedirs(exist_ok=True)
    /\ fs' = FindEffect(fs, d, t)
    /\ ret' = FindReturn(d, t)
    /\ probed' = d.probed
    /\ renamed' = FindRename(d, t)
    /\ fs0' = fs
    /\ content' = c
    /\ takeOver' = t
    /\ saved' = "pending"
    /\ hist' = Append(hist, [content |-> c, takeOver |-> t, ret |-> FindReturn(d, t)])
    /\ pc' = "found"

\* the call as a step of the find-then-save pipeline
FindNextAvailableFilePath(c, t) ==
    /\ FindCall(c, t)
    /\ UNCHANGED <<fetchVars, callVars, runVars>>

(***************************************************************************)
(* save_contents_to_file                                                   *)
(***************************************************************************)
\* faulty variant: the existence test is left out
SaveRefusesNever(fsys, k, overwrite) == FALSE

\* the refusal branch: file_path.exists() and not overwrite
SaveRefuses(fsys, k, overwrite) == Exists(fsys, k) /\ ~overwrite

SaveContentsToFile(fsys, k, c, overwrite) ==
    IF SaveRefuses(fsys, k, overwrite) THEN fsys ELSE [fsys EXCEPT ![k] = File(c)]

\* the callers' `if file_path: save_contents_to_file(file_path, image_content)`
SaveIfPath ==
    /\ pc = "found"
    /\ IF ret = None
       THEN /\ fs' = fs
            /\ saved' = "skipped"
       ELSE /\ fs' = SaveContentsToFile(fs, ret, content, FALSE)
            /\ saved' = IF SaveRefuses(fs, ret, FALSE) THEN "refused" ELSE "written"
    /\ pc' = "idle"
    /\ UNCHANGED <<folderExists, content, takeOver, ret, probed, renamed, fs0, hist>>
    /\ UNCHANGED <<fetchVars, callVars, runVars>>

(***************************************************************************)
(* A run of find-then-save rounds that starts from an empty folder.        *)
(***************************************************************************)
InitRound ==
    /\ pc = "idle"
    /\ content = <<>>
    /\ takeOver = FALSE
    /\ ret = None
    /\ probed = <<>>
    /\ renamed = <<>>
    /\ saved = "skipped"
    /\ hist = <<>>

\* a handler call that has done nothing yet
NewItem(handler, frameCount) ==
    [handler |-> handler, frameCount |-> frameCount, fatal |-> FALSE, failure |-> "none",
     empty |-> FALSE, wrote |-> FALSE, advanced |-> 0, others |-> 0, ended |-> FALSE]

\* no downloader runs
InitNoRun ==
    /\ service = "none"
    /\ rpc = "items"
    /\ items = 0
    /\ advances = 0
    /\ polls = 0
    /\ item = NewItem("none", 1)
    /\ saveFrames = FALSE
    /\ saveGifs = FALSE
    /\ saveHd = FALSE
    /\ miis = <<>>
    /\ failures = 0

\* no library function was called directly yet
InitCall ==
    /\ op = "none"
    /\ cmp = [a |-> BytesArg(<<>>), b |-> BytesArg(<<>>), sizeOnly |-> FALSE,
              value |-> FALSE, raised |-> FALSE]
    /\ saveOverwrite = FALSE
    /\ img = [width |-> 1, height |-> 1, frameCount |-> 1]
    /\ frames = <<>>

\* no download_url_to_raw call was made yet
InitFetch ==
    /\ fpc = "idle"
    /\ wrapper = "raw"
    /\ retries = 0
    /\ gets = 0
    /\ waits = <<>>
    /\ waitSeconds = 0
    /\ log = <<>>
    /\ outcome = "running"
    /\ result = "running"
    /\ prevRetries = 0

Init ==
    /\ fs = EmptyFolder
    /\ fs0 = EmptyFolder
    /\ folderExists \in BOOLEAN
    /\ InitRound
    /\ InitFetch
    /\ InitCall
    /\ InitNoRun

FindStep ==
    /\ Len(hist) < MaxCalls
    /\ \E c \in Bytes, t \in BOOLEAN : FindNextAvailableFilePath(c, t)

Next ==
    \/ FindStep
    \/ SaveIfPath

Spec == Init /\ [][Next]_vars

(***************************************************************************)
(* One find-then-save round from any folder: the folder on disk is an      *)
(* input of find_next_available_file_path, whatever earlier runs, other    *)
(* programs or the user left there.                                        *)
(***************************************************************************)
InitFolder ==
    /\ fs \in [Slots -> Files]
    /\ fs0 = fs
    /\ folderExists \in BOOLEAN
    /\ (~folderExists => fs = EmptyFolder)     \* no folder, no files in it
    /\ InitRound
    /\ InitFetch
    /\ InitCall
    /\ InitNoRun

FindOnce ==
    /\ Len(hist) < 1
    /\ \E c \in Bytes, t \in BOOLEAN : FindNextAvailableFilePath(c, t)

NextFolder ==
    \/ FindOnce
    \/ SaveIfPath

SpecFolder == InitFolder /\ [][NextFolder]_vars

(***************************************************************************)
(* download_url_to_raw and its wrappers.                                   *)
(* The server's answer to each GET is an input: a status, the Retry-After  *)
(* header (absent, or its text) and whether the body parses as JSON.       *)
(***************************************************************************)
\* max_retries
MaxRetries == 5
\* wait_seconds when Retry-After is absent or is no integer
FallbackWait == 10

Statuses == {200, 304, 403, 404, 429, 500}

NoHeader == [present |-> FALSE, text |-> <<>>]

Header(t) == [present |-> TRUE, text |-> t]

\* Retry-After as sent with a 429: absent, delay-seconds ("2", "12"), or text
\* that is no integer (an HTTP-date)
RetryAfterHeaders == {NoHeader, Header(<<"2">>), Header(<<"1", "2">>), Header(<<"W", "e", "d">>)}

Responses ==
    {[status |-> 429, retryAfter |-> h, jsonBody |-> FALSE] : h \in RetryAfterHeaders}
    \cup {[status |-> 200, retryAfter |-> NoHeader, jsonBody |-> j] : j \in BOOLEAN}
    \cup {[status |-> st, retryAfter |-> NoHeader, jsonBody |-> FALSE] : st \in Statuses \ {200, 429}}

Digits == {"0", "1", "2", "3", "4", "5", "6", "7", "8", "9"}

DigitValue(ch) ==
    CASE ch = "0" -> 0 [] ch = "1" -> 1 [] ch = "2" -> 2 [] ch = "3" -> 3 [] ch = "4" -> 4
      [] ch = "5" -> 5 [] ch = "6" -> 6 [] ch = "7" -> 7 [] ch = "8" -> 8 [] ch = "9" -> 9

\* int(retry_after) raises ValueError
IntRaises(text) == text = <<>> \/ \E i \in 1..Len(text) : text[i] \notin Digits

\* int(retry_after) of a decimal numeral
RECURSIVE IntOf(_, _)
IntOf(text, acc) ==
    IF text = <<>> THEN acc ELSE IntOf(Tail(text), acc * 10 + DigitValue(Head(text)))

\* response.raise_for_status() raises HTTPError: 4xx and 5xx
RaisesForStatus(st) == 400 <= st /\ st < 600

\* faulty variant: the Retry-After header is ignored
WaitSecondsOfFallbackOnly(r) == FallbackWait

\* wait_seconds of a 429 response
WaitSecondsOf(r) ==
    IF r.retryAfter.present
    THEN IF IntRaises(r.retryAfter.text) THEN FallbackWait ELSE IntOf(r.retryAfter.text, 0)
    ELSE FallbackWait

\* bool(response) is response.ok: raise_for_status() would not raise
Truthy(r) == ~RaisesForStatus(r.status)

\* what the function the caller called returns, given what download_url_to_raw
\* did (o) and the response it returned (r):
\*   download_url_to_bytes: response.content if response else None
\*   download_url_to_json:  response.json() if response else None
WrapperResult(w, o, r) ==
    CASE o = "raised" -> "raised"
      [] o = "None"   -> "None"
      [] o = "response" ->
            CASE w = "raw"   -> "response"
              [] w = "bytes" -> IF Truthy(r) THEN "content" ELSE "None"
              [] w = "json"  -> IF Truthy(r) THEN (IF r.jsonBody THEN "json" ELSE "raised") ELSE "None"

\* faulty variant: the while test lets one more pass through
LoopContinuesOneMore(n) == n <= MaxRetries + 1

\* the while test
LoopContinues(n) == n <= MaxRetries

\* faulty variant: 403 is not told apart from the other error statuses
ClassifyNo403(r) ==
    IF ~RaisesForStatus(r.status) THEN "return"
    ELSE IF r.status = 429 THEN "backoff"
    ELSE "raise"

\* faulty variant: the other error statuses are swallowed like a 403
ClassifySwallow(r) ==
    IF ~RaisesForStatus(r.status) THEN "return"
    ELSE IF r.status = 429 THEN "backoff"
    ELSE "deny"

\* what one pass of the loop does with the response: "return", "deny",
\* "backoff" or "raise"
Classify(r) ==
    IF ~RaisesForStatus(r.status) THEN "return"
    ELSE IF r.status = 403 THEN "deny"
    ELSE IF r.status = 429 THEN "backoff"
    ELSE "raise"

\* a caller calls download_url_to_raw / _bytes / _json: max_retries = 5, retries = 0
Call(w) ==
    /\ fpc = "idle"
    /\ fpc' = "loop"
    /\ wrapper' = w
    /\ prevRetries' = retries
    /\ retries' = 0
    /\ gets' = 0
    /\ waits' = <<>>
    /\ waitSeconds' = 0
    /\ log' = <<>>
    /\ outcome' = "running"
    /\ result' = "running"
    /\ UNCHANGED <<placerVars, callVars, runVars>>

\* (the end of a call, shared by the three ways out)
Finish(o, r) ==
    /\ outcome' = o
    /\ result' = WrapperResult(wrapper, o, r)
    /\ fpc' = "idle"

\* one pass of the loop: requests.get, raise_for_status and the except block
\* up to the sleep
Get(r) ==
    /\ fpc = "loop"
    /\ LoopContinues(retries)
    /\ gets' = gets + 1
    /\ log' = Append(log, r)
    /\ LET c == Classify(r) IN
       CASE c = "return"  -> Finish("response", r) /\ UNCHANGED waitSeconds
         [] c = "deny"    -> Finish("None", r) /\ UNCHANGED waitSeconds
         [] c = "raise"   -> Finish("raised", r) /\ UNCHANGED waitSeconds
         [] c = "backoff" -> /\ waitSeconds' = WaitSecondsOf(r)
                             /\ fpc' = "sleep"
                             /\ UNCHANGED <<outcome, result>>
    /\ UNCHANGED <<wrapper, retries, waits, prevRetries>>
    /\ UNCHANGED <<placerVars, callVars, runVars>>

\* faulty variant: the retry is counted but the sleep is left out
SleepSkipped ==
    /\ fpc = "sleep"
    /\ retries' = retries + 1
    /\ fpc' = "loop"
    /\ UNCHANGED <<wrapper, gets, waits, waitSeconds, log, outcome, result, prevRetries>>
    /\ UNCHANGED <<placerVars, callVars, runVars>>

\* time.sleep(wait_seconds); retries += 1; continue
Sleep ==
    /\ fpc = "sleep"
    /\ waits' = Append(waits, waitSeconds)
    /\ retries' = retries + 1
    /\ fpc' = "loop"
    /\ UNCHANGED <<wrapper, gets, waitSeconds, log, outcome, result, prevRetries>>
    /\ UNCHANGED <<placerVars, callVars, runVars>>

\* the while test fails: "Exceeded maximum retries", return None
GiveUp ==
    /\ fpc = "loop"
    /\ ~LoopContinues(retries)
    /\ Finish("None", log[Len(log)])
    /\ UNCHANGED <<wrapper, retries, gets, waits, waitSeconds, log, prevRetries>>
    /\ UNCHANGED <<placerVars, callVars, runVars>>

InitFetcher ==
    /\ fs = EmptyFolder
    /\ fs0 = EmptyFolder
    /\ folderExists = FALSE
    /\ InitRound
    /\ InitFetch
    /\ InitCall
    /\ InitNoRun

CallStep == \E w \in {"raw", "bytes", "json"} : Call(w)

GetStep == \E r \in Responses : Get(r)

NextFetch ==
    \/ CallStep
    \/ GetStep
    \/ Sleep
    \/ GiveUp

SpecFetch == InitFetcher /\ [][NextFetch]_vars

(***************************************************************************)
(* split_image_into_frames. An image is its size; a frame is the box       *)
(* handed to img.crop, whose size is the frame's size.                     *)
(***************************************************************************)
Dims == (1..MaxDim) \cup {120, 480}

\* faulty variant: a square image is cut along the width
IsHorizontalOrSquare(width, height) == width >= height

\* if width > height: image_mode = "horizontal"
IsHorizontal(width, height) == width > height

FrameCutoff(width, height, frameCount) ==
    IF IsHorizontal(width, height) THEN width \div frameCount ELSE height \div frameCount

\* the box cropped in the loop body for `index`
CropBox(width, height, frameCount, index) ==
    LET left  == index * FrameCutoff(width, height, frameCount)
        right == left + FrameCutoff(width, height, frameCount)
    IN  IF IsHorizontal(width, height)
        THEN <<left, 0, right, height>>
        ELSE <<0, left, width, right>>

\* for index in range(frame_count): frames.append(...)
SplitImageIntoFrames(width, height, frameCount) ==
    [i \in 1..frameCount |-> CropBox(width, height, frameCount, i - 1)]

\* size of a cropped frame: (right - left, lower - upper)
BoxSize(box) == <<box[3] - box[1], box[4] - box[2]>>

(***************************************************************************)
(* One direct call of a library function, from any small folder.           *)
(***************************************************************************)
\* every file argument: the paths of the folder, existing or not, and buffers
FileArgs == {PathArg(k) : k \in Slots} \cup {BytesArg(b) : b \in Bytes}

CallIsIdenticalFile(a, b, sizeOnly) ==
    /\ op = "none"
    /\ op' = "is_identical_file"
    /\ cmp' = [a |-> a, b |-> b, sizeOnly |-> sizeOnly,
               value  |-> IsIdenticalFile(fs, a, b, sizeOnly),
               raised |-> IsIdenticalFileRaises(fs, a, b)]
    /\ UNCHANGED <<saveOverwrite, img, frames, placerVars, fetchVars, runVars>>

CallIdenticalOrSameSizeFile(a, b) ==
    /\ op = "none"
    /\ op' = "identical_or_same_size_file"
    /\ cmp' = [a |-> a, b |-> b, sizeOnly |-> TRUE,
               value  |-> IdenticalOrSameSizeFile(fs, a, b),
               raised |-> IsIdenticalFileRaises(fs, a, b)]
    /\ UNCHANGED <<saveOverwrite, img, frames, placerVars, fetchVars, runVars>>

\* save_contents_to_file(file_path, contents, overwrite) called on its own:
\* file_path.parent.mkdir(parents=True, exist_ok=True) precedes the write
CallSaveContentsToFile(k, c, ow) ==
    /\ op = "none"
    /\ op' = "save_contents_to_file"
    /\ saveOverwrite' = ow
    /\ fs0' = fs
    /\ ret' = k
    /\ content' = c
    /\ fs' = SaveContentsToFile(fs, k, c, ow)
    /\ saved' = IF SaveRefuses(fs, k, ow) THEN "refused" ELSE "written"
    /\ folderExists' = IF SaveRefuses(fs, k, ow) THEN folderExists ELSE TRUE
    /\ UNCHANGED <<pc, takeOver, probed, renamed, hist, cmp, img, frames, fetchVars, runVars>>

\* find_next_available_file_path(folder, file_name, content, take_over) called on its own
CallFindNextAvailableFilePath(c, t) ==
    /\ op = "none"
    /\ op' = "find_next_available_file_path"
    /\ FindCall(c, t)
    /\ UNCHANGED <<cmp, saveOverwrite, img, frames, fetchVars, runVars>>

\* frame_count never exceeds the side being cut, so every frame has pixels
CallSplitImageIntoFrames(width, height, frameCount) ==
    /\ op = "none"
    /\ FrameCutoff(width, height, frameCount) >= 1
    /\ op' = "split_image_into_frames"
    /\ img' = [width |-> width, height |-> height, frameCount |-> frameCount]
    /\ frames' = SplitImageIntoFrames(width, height, frameCount)
    /\ UNCHANGED <<cmp, saveOverwrite, placerVars, fetchVars, runVars>>

\* the folder holds anything in its first two slots, or does not exist at all
InitCalls ==
    /\ fs \in [Slots -> Files]
    /\ \A k \in Slots : k > 2 => ~fs[k].exists
    /\ fs0 = fs
    /\ folderExists \in BOOLEAN
    /\ (~folderExists => fs = EmptyFolder)
    /\ InitRound
    /\ InitFetch
    /\ InitCall
    /\ InitNoRun

CompareStep == \E a \in FileArgs, b \in FileArgs, sizeOnly \in BOOLEAN : CallIsIdenticalFile(a, b, sizeOnly)

SameSizeStep == \E a \in FileArgs, b \in FileArgs : CallIdenticalOrSameSizeFile(a, b)

SaveStep == \E k \in Slots, c \in Bytes, ow \in BOOLEAN : CallSaveContentsToFile(k, c, ow)

SplitStep == \E width \in Dims, height \in Dims, frameCount \in 1..MaxFrames : CallSplitImageIntoFrames(width, height, frameCount)

FindAloneStep == \E c \in Bytes, t \in BOOLEAN : CallFindNextAvailableFilePath(c, t)

NextCalls ==
    \/ FindAloneStep
    \/ CompareStep
    \/ SameSizeStep
    \/ SaveStep
    \/ SplitStep

SpecCalls == InitCalls /\ [][NextCalls]_vars

(***************************************************************************)
(* The service downloaders: one step per handler call. The answer that     *)
(* ends each fetch (after any backoff) and the bytes it carries are        *)
(* inputs. The folder of the model is the one that receives the item's     *)
(* single image; the "16 frames" folder and the .gif names of the Mii      *)
(* downloader are other names, whose find-then-save rounds are counted in  *)
(* item.others.                                                            *)
(***************************************************************************)
Services == {"gta", "mii", "mii_legacy", "roblox"}

\* what download_url_to_bytes / download_url_to_json gives its caller when
\* the call ends on response r: a 429 that ends a call has used up the retries
FetchResult(w, r) ==
    CASE Classify(r) = "return"  -> WrapperResult(w, "response", r)
      [] Classify(r) = "deny"    -> WrapperResult(w, "None", r)
      [] Classify(r) = "backoff" -> WrapperResult(w, "None", r)
      [] Classify(r) = "raise"   -> WrapperResult(w, "raised", r)

\* file_path = find_next_available_file_path(folder, file_name, image_content)
\* if file_path: save_contents_to_file(file_path, image_content)
FindThenSave(fsys, c) ==
    LET d == FindDecision(fsys, c) IN
    IF d.kind = "out" THEN [ok |-> FALSE, fs |-> fsys, wrote |-> FALSE]
    ELSE LET p     == FindReturn(d, FALSE)
             after == FindEffect(fsys, d, FALSE)
         IN  IF p = None THEN [ok |-> TRUE, fs |-> after, wrote |-> FALSE]
             ELSE [ok |-> TRUE, fs |-> SaveContentsToFile(after, p, c, FALSE),
                   wrote |-> ~SaveRefuses(after, p, FALSE)]

\* the digest the GTA downloader compares with: MD5 of no bytes
EmptyMd5 == Md5Hexdigest(Md5New)

\* what a handler call did: its record, the files and folder after it, where
\* the run stands, and the progress advances it made
Outcome(it, fsys, folder, next, adv) ==
    [item |-> it, fs |-> fsys, folder |-> folder, rpc |-> next, adv |-> adv]

\* _download_character_avatar
DownloadCharacterAvatar(fsys, folder, r, c) ==
    LET res == FetchResult("bytes", r)
        it  == [NewItem("gta", 1) EXCEPT !.fatal = (Classify(r) = "raise")]
        p   == FindThenSave(fsys, c)
    IN  CASE res = "raised" ->
                Outcome([it EXCEPT !.failure = "raised", !.ended = TRUE], fsys, folder, "aborted", 0)
          [] res = "None" ->
                Outcome([it EXCEPT !.failure = "fetch_none", !.advanced = 1, !.ended = TRUE],
                        fsys, folder, "items", 1)
          [] res = "content" ->
                IF FileHash(fsys, BytesArg(c)) = EmptyMd5
                THEN Outcome([it EXCEPT !.failure = "empty", !.empty = (c = <<>>), !.advanced = 1,
                                        !.ended = TRUE], fsys, folder, "items", 1)
                ELSE Outcome([it EXCEPT !.empty = (c = <<>>), !.wrote = p.wrote, !.advanced = 1,
                                        !.ended = TRUE], p.fs, TRUE, "items", 1)

\* Image.open on a buffer that holds no image raises: render_gif_from_frames
\* of zero-length content never returns
RenderRaises(c) == c = <<>>

\* _process_individual_image (src/modules) and process_image (src, legacy):
\* the two differ in the failed-fetch branch, where only the former advances
ProcessIndividualImage(fsys, folder, legacy, frameCount, r, c) ==
    LET res      == FetchResult("bytes", r)
        it       == [NewItem(IF legacy THEN "mii_legacy" ELSE "mii", frameCount)
                        EXCEPT !.fatal = (Classify(r) = "raise")]
        png      == saveFrames \/ frameCount = 1
        gif      == saveGifs /\ frameCount # 1
        p        == FindThenSave(fsys, c)
        pngFs    == IF png /\ frameCount = 1 THEN p.fs ELSE fsys
        pngWrote == png /\ frameCount = 1 /\ p.wrote
        pngOther == IF png /\ frameCount # 1 THEN 1 ELSE 0
        pngAdv   == IF png THEN 1 ELSE 0
    IN  CASE res = "raised" ->
                Outcome([it EXCEPT !.failure = "raised", !.ended = TRUE], fsys, folder, "aborted", 0)
          [] res = "None" ->
                Outcome([it EXCEPT !.failure = "fetch_none", !.advanced = IF legacy THEN 0 ELSE 1,
                                   !.ended = TRUE],
                        fsys, folder, "items", IF legacy THEN 0 ELSE 1)
          [] res = "content" ->
                IF gif /\ RenderRaises(c)
                THEN Outcome([it EXCEPT !.failure = "raised", !.empty = (c = <<>>), !.wrote = pngWrote,
                                        !.advanced = pngAdv, !.others = pngOther, !.ended = TRUE],
                             pngFs, TRUE, "aborted", pngAdv)
                ELSE Outcome([it EXCEPT !.empty = (c = <<>>), !.wrote = pngWrote,
                                        !.advanced = pngAdv + (IF gif THEN 1 ELSE 0),
                                        !.others = pngOther + (IF gif THEN 1 ELSE 0),
                                        !.ended = TRUE],
                             pngFs, TRUE,
                             IF (saveGifs \/ saveFrames) /\ frameCount = 1 THEN "rotating" ELSE "items",
                             pngAdv + (IF gif THEN 1 ELSE 0))

\* an entry of MIIS: sd = it has "mii_id" or "mii_code"; hd = it has what the
\* HD renderer needs ("mii_code" or "nnid"; "mii_renderer_real" in the legacy module)
MiiEntries == [sd : BOOLEAN, hd : BOOLEAN]

\* the frames=1 calls the loops of download_mii_avatars make for the entries
\* from position i on: per pose and expression one for an sd entry, and one
\* per shading for an hd entry when MII_SAVE_HD_IMAGES is set
RECURSIVE MiiLoopCallsFrom(_, _, _)
MiiLoopCallsFrom(entries, hd, i) ==
    IF i > Len(entries) THEN 0
    ELSE NumPoses * NumExpressions
            * ((IF entries[i].sd THEN 1 ELSE 0) + (IF hd /\ entries[i].hd THEN NumShadings ELSE 0))
         + MiiLoopCallsFrom(entries, hd, i + 1)

MiiLoopCalls(entries, hd) == MiiLoopCallsFrom(entries, hd, 1)

\* _calculate_total_downloads
CalculateTotalDownloads(entries, hd, framesFlag, gifsFlag) ==
    LET nintendo == NumPoses * NumExpressions
                        * Cardinality({i \in 1..Len(entries) : entries[i].sd})
        real     == IF hd
                    THEN NumPoses * NumExpressions * NumShadings
                            * Cardinality({i \in 1..Len(entries) : entries[i].hd})
                    ELSE 0
        total    == nintendo + real
        doubled  == IF framesFlag THEN total * 2 ELSE total
    IN  IF gifsFlag THEN doubled * 2 ELSE doubled

\* the shapes of the currently-wearing answer: a list of ids, an empty list,
\* or no "assetIds" list at all
AssetShapes == {"ids", "empty", "other"}

\* _get_outfit_asset_ids_from_api: every exception is caught and gives None
GetOutfitAssetIdsFromApi(r, shape) ==
    IF FetchResult("json", r) = "json" /\ shape \in {"ids", "empty"} THEN shape ELSE "None"

\* the body of the loop of _load_outfit_asset_ids_to_list for one user
LoadOutfitAssetIds(fsys, folder, r, shape) ==
    LET it == [NewItem("roblox_load", 1) EXCEPT !.fatal = (Classify(r) = "raise")]
    IN  IF GetOutfitAssetIdsFromApi(r, shape) # "ids"
        THEN Outcome([it EXCEPT !.failure = "no_ids", !.ended = TRUE], fsys, folder, "items", 0)
        ELSE Outcome([it EXCEPT !.advanced = 1, !.ended = TRUE], fsys, folder, "items", 1)

\* the states the thumbnails API reports for the first data entry
ThumbStates == {"Completed", "Pending", "Blocked"}

\* one call of _get_image_url_from_roblox_api up to its return or its
\* recursive call: "url", "pending" or "None"; every exception is caught
GetImageUrlFromRobloxApi(r, state) ==
    IF FetchResult("json", r) = "json" /\ state = "Completed" THEN "url"
    ELSE IF FetchResult("json", r) = "json" /\ state = "Pending" THEN "pending"
    ELSE "None"

\* _download_roblox_avatars / _download_roblox_outfits up to the image
\* download: `it` is the record of the item so far
DownloadRobloxGetUrl(fsys, folder, it, r, state) ==
    LET url == GetImageUrlFromRobloxApi(r, state)
        seen == [it EXCEPT !.fatal = it.fatal \/ (Classify(r) = "raise")]
    IN  CASE url = "url"     -> Outcome(seen, fsys, folder, "image", 0)
          [] url = "pending" -> Outcome(seen, fsys, folder, "polling", 0)
          [] url = "None"    ->
                Outcome([seen EXCEPT !.failure = "no_url", !.advanced = 1, !.ended = TRUE],
                        fsys, folder, "items", 1)

\* _download_roblox_avatars / _download_roblox_outfits from the image download on
DownloadRobloxImage(fsys, folder, it, r, c) ==
    LET res  == FetchResult("bytes", r)
        seen == [it EXCEPT !.fatal = it.fatal \/ (Classify(r) = "raise")]
        p    == FindThenSave(fsys, c)
    IN  CASE res = "raised" ->
                Outcome([seen EXCEPT !.failure = "raised", !.ended = TRUE], fsys, folder, "aborted", 0)
          [] res = "None" ->
                Outcome([seen EXCEPT !.failure = "fetch_none", !.advanced = 1, !.ended = TRUE],
                        fsys, folder, "items", 1)
          [] res = "content" ->
                Outcome([seen EXCEPT !.empty = (c = <<>>), !.wrote = p.wrote, !.advanced = 1,
                                     !.ended = TRUE], p.fs, TRUE, "items", 1)

\* the state after a handler call
Apply(o) ==
    /\ item' = o.item
    /\ fs' = o.fs
    /\ folderExists' = o.folder
    /\ rpc' = o.rpc
    /\ advances' = advances + o.adv
    /\ fs0' = fs
    /\ UNCHANGED <<pc, content, takeOver, ret, probed, renamed, saved, hist>>
    /\ failures' = failures + (IF o.item.ended /\ o.item.failure # "none" THEN 1 ELSE 0)
    /\ UNCHANGED <<service, saveFrames, saveGifs, saveHd, miis, fetchVars, callVars>>

\* for character_name in GTA_CHARACTER_NAMES: _download_character_avatar(...)
GtaItem(r, c) ==
    /\ service = "gta" /\ rpc = "items" /\ items < MaxItems
    /\ FetchResult("bytes", r) = "content" => FindThenSave(fs, c).ok
    /\ items' = items + 1
    /\ polls' = 0
    /\ Apply(DownloadCharacterAvatar(fs, folderExists, r, c))

\* a call from the loops of download_mii_avatars (frames = 1)
MiiItem(r, c) ==
    /\ service \in {"mii", "mii_legacy"} /\ rpc = "items" /\ items < MaxItems
    /\ items < MiiLoopCalls(miis, saveHd)
    /\ FetchResult("bytes", r) = "content" => FindThenSave(fs, c).ok
    /\ items' = items + 1
    /\ polls' = 0
    /\ Apply(ProcessIndividualImage(fs, folderExists, service = "mii_legacy", 1, r, c))

\* the recursive call with frames=16
MiiRotating(r, c) ==
    /\ service \in {"mii", "mii_legacy"} /\ rpc = "rotating"
    /\ UNCHANGED <<items, polls>>
    /\ Apply(ProcessIndividualImage(fs, folderExists, service = "mii_legacy", 16, r, c))

\* for user in ROBLOX_USER_IDS, in _load_outfit_asset_ids_to_list
RobloxLoad(r, shape) ==
    /\ service = "roblox" /\ rpc = "items" /\ items < MaxItems
    /\ items' = items + 1
    /\ polls' = 0
    /\ Apply(LoadOutfitAssetIds(fs, folderExists, r, shape))

\* _download_roblox_avatars / _download_roblox_outfits is entered and asks
\* the API for the image URL
RobloxItem(h, r, state) ==
    /\ service = "roblox" /\ rpc = "items" /\ items < MaxItems
    /\ state = "Pending" => 1 <= MaxPolls
    /\ items' = items + 1
    /\ polls' = 1
    /\ Apply(DownloadRobloxGetUrl(fs, folderExists, NewItem(h, 1), r, state))

\* time.sleep(5) is over: the recursive _get_image_url_from_roblox_api call
RobloxPoll(r, state) ==
    /\ service = "roblox" /\ rpc = "polling"
    /\ state = "Pending" => polls + 1 <= MaxPolls
    /\ polls' = polls + 1
    /\ UNCHANGED items
    /\ Apply(DownloadRobloxGetUrl(fs, folderExists, item, r, state))

\* image_content = download_url_to_bytes(image_url) and what follows
RobloxImage(r, c) ==
    /\ service = "roblox" /\ rpc = "image"
    /\ FetchResult("bytes", r) = "content" => FindThenSave(fs, c).ok
    /\ UNCHANGED <<items, polls>>
    /\ Apply(DownloadRobloxImage(fs, folderExists, item, r, c))

\* a service starts on a folder it has not written to yet
InitRun ==
    /\ fs = EmptyFolder
    /\ fs0 = EmptyFolder
    /\ folderExists \in BOOLEAN
    /\ InitRound
    /\ InitFetch
    /\ InitCall
    /\ service \in Services
    /\ rpc = "items"
    /\ items = 0
    /\ advances = 0
    /\ polls = 0
    /\ item = NewItem("none", 1)
    /\ saveFrames \in BOOLEAN
    /\ saveGifs \in BOOLEAN
    /\ saveHd \in BOOLEAN
    /\ miis \in UNION {[1..n -> MiiEntries] : n \in 0..MaxMiis}
    /\ failures = 0
    /\ (service \notin {"mii", "mii_legacy"} =>
            ~saveFrames /\ ~saveGifs /\ ~saveHd /\ miis = <<>>)

GtaStep == \E r \in Responses, c \in Bytes : GtaItem(r, c)

MiiStep == \E r \in Responses, c \in Bytes : MiiItem(r, c)

MiiRotatingStep == \E r \in Responses, c \in Bytes : MiiRotating(r, c)

RobloxLoadStep == \E r \in Responses, shape \in AssetShapes : RobloxLoad(r, shape)

RobloxItemStep ==
    \E h \in {"roblox_avatar", "roblox_outfit"}, r \in Responses, state \in ThumbStates :
        RobloxItem(h, r, state)

RobloxPollStep == \E r \in Responses, state \in ThumbStates : RobloxPoll(r, state)

RobloxImageStep == \E r \in Responses, c \in Bytes : RobloxImage(r, c)

NextRun ==
    \/ GtaStep
    \/ MiiStep
    \/ MiiRotatingStep
    \/ RobloxLoadStep
    \/ RobloxItemStep
    \/ RobloxPollStep
    \/ RobloxImageStep

SpecRun == InitRun /\ [][NextRun]_vars

(***************************************************************************)
(* Properties of hashing and identity.                                     *)
(***************************************************************************)
\* the file arguments that name something: paths of existing files, and buffers
ExistingArgs == {PathArg(k) : k \in {j \in Slots : fs[j].exists}} \cup {BytesArg(b) : b \in Bytes}

\* C1: file_hash of the path of a file whose content is b equals file_hash of
\* b in memory, for every file on disk.
C1_PathHashEqualsBytesHash ==
    \A k \in Slots :
        fs[k].exists => FileHash(fs, PathArg(k)) = FileHash(fs, BytesArg(fs[k].data))

\* C2: identical_or_same_size_file is coarser than is_identical_file: whenever
\* is_identical_file(a, b) with size_only=False is True for existing paths or
\* buffers a, b, identical_or_same_size_file(a, b) is True.
C2_IdenticalImpliesSameSize ==
    \A a \in ExistingArgs, b \in ExistingArgs :
        IsIdenticalFile(fs, a, b, FALSE) => IdenticalOrSameSizeFile(fs, a, b)

(***************************************************************************)
(* Properties of the file placer.                                          *)
(***************************************************************************)
\* slot k held exactly the bytes of `content` when the call was entered
HeldContent(k) == fs0[k].exists /\ fs0[k].data = content

\* every slot below k held a file when the call was entered
NoGapBelow(k) == \A j \in 1..(k - 1) : fs0[j].exists

\* C3 as stated: for every folder state, if folder/file_name or any numbered
\* variant already holds bytes identical to the content,
\* find_next_available_file_path returns None.
C3_AnyIdenticalCopyGivesNone ==
    pc = "found" => \A k \in Slots : HeldContent(k) => ret = None

\* C3 amended: if a slot holds bytes identical to the content and every slot
\* below it holds a file, find_next_available_file_path returns None.
C3_IdenticalCopyBeforeGapGivesNone ==
    pc = "found" => \A k \in Slots : (HeldContent(k) /\ NoGapBelow(k)) => ret = None

\* a duplicate found among the numbered variants of a non-empty content
C3_Witness ==
    /\ pc = "found"
    /\ ret = None
    /\ content # <<>>
    /\ HeldContent(3)
    /\ NoGapBelow(3)
    /\ ~HeldContent(1)
    /\ ~HeldContent(2)

\* C4: no step of find-then-save replaces or truncates an existing file: every
\* file that was on disk is afterwards under its old name with the same bytes,
\* or was moved, bytes unchanged, to a name that held no file.
C4_NoFileClobbered ==
    [][\A k \in Slots :
          fs[k].exists =>
             \/ fs'[k] = fs[k]
             \/ \E j \in Slots : ~fs[j].exists /\ fs'[j] = fs[k] /\ ~fs'[k].exists]_vars

\* a take-over round among other files: the occupant was moved aside, the new
\* content was written to folder/file_name, the other file is as it was
C4_Witness ==
    /\ pc = "idle"
    /\ saved = "written"
    /\ renamed = <<1, 3>>
    /\ fs[3] = fs0[1]
    /\ fs[2] = fs0[2]
    /\ fs0[2].exists
    /\ fs[1] = File(content)
    /\ fs[1] # fs0[1]

\* the rounds so far were all made with take-over off / on
AllTakeOver(t) == \A i \in 1..Len(hist) : hist[i].takeOver = t

\* C5: from an empty folder with take-over off, the first call returns
\* folder/name; after its save a second call with identical content returns
\* None; a following call whose content has another byte length returns
\* folder/base_2.ext.
C5_FirstSecondThirdCall ==
    AllTakeOver(FALSE) =>
        /\ Len(hist) >= 1 => hist[1].ret = 1
        /\ (Len(hist) >= 2 /\ hist[2].content = hist[1].content) => hist[2].ret = None
        /\ (/\ Len(hist) >= 3
            /\ hist[2].content = hist[1].content
            /\ Len(hist[3].content) # Len(hist[1].content)) => hist[3].ret = 2

C5_Witness ==
    /\ pc = "idle"
    /\ AllTakeOver(FALSE)
    /\ Len(hist) = 3
    /\ hist[1].content # <<>>
    /\ hist[2].content = hist[1].content
    /\ Len(hist[3].content) # Len(hist[1].content)
    /\ hist[3].ret = 2
    /\ fs[2] = File(hist[3].content)

\* the contents of the rounds so far have pairwise different byte lengths
PairwiseDifferentSizes ==
    \A i \in 1..Len(hist), j \in 1..Len(hist) :
        i # j => Len(hist[i].content) # Len(hist[j].content)

\* C6: with take-over on, from an empty folder and contents of pairwise
\* different sizes: after every round folder/name holds the content written
\* last, and from the second write on the first content is under base_2.ext.
C6_TakeOverKeepsNewestAtName ==
    (pc = "idle" /\ AllTakeOver(TRUE) /\ PairwiseDifferentSizes) =>
        /\ Len(hist) >= 1 => fs[1] = File(hist[Len(hist)].content)
        /\ Len(hist) >= 2 => fs[2] = File(hist[1].content)

C6_Witness ==
    /\ pc = "idle"
    /\ AllTakeOver(TRUE)
    /\ PairwiseDifferentSizes
    /\ Len(hist) = 3
    /\ fs[1] = File(hist[3].content)
    /\ fs[2] = File(hist[1].content)
    /\ fs[3] = File(hist[2].content)

\* the slots at which the reference scan stops: missing, or holding a file of
\* the content's byte length
StopSlots == {k \in Slots : ~fs0[k].exists \/ Len(fs0[k].data) = Len(content)}

\* C7: with take-over off the call examines slots 1, 2, ... in increasing
\* order up to the least slot k that is missing or holds a file of the
\* content's length, returns slot k if it is missing and None otherwise, and
\* never returns a slot held by a file.
C7_ReferenceScan ==
    (pc = "found" /\ ~takeOver) =>
        /\ StopSlots # {}
        /\ LET k == CHOOSE m \in StopSlots : \A n \in StopSlots : m <= n IN
           /\ probed = [i \in 1..k |-> i]
           /\ ret = IF fs0[k].exists THEN None ELSE k
        /\ ret # None => ~fs0[ret].exists
        /\ fs = fs0

\* the scan passed two occupied slots of other sizes and stopped at a copy of
\* the same size behind them
C7_Witness ==
    /\ pc = "found"
    /\ ~takeOver
    /\ probed = <<1, 2, 3>>
    /\ ret = None
    /\ fs0[3].exists
    /\ fs0[3].data # content
    /\ Len(fs0[1].data) # Len(content)
    /\ Len(fs0[2].data) # Len(content)

(***************************************************************************)
(* Properties of the fetcher.                                              *)
(***************************************************************************)
\* the call under way has ended (returned or raised)
Ended == fpc = "idle" /\ outcome # "running"

\* the first k responses of the call were 429 with the Retry-After header h
First429s(k, h) ==
    /\ Len(log) >= k
    /\ \A i \in 1..k : log[i].status = 429 /\ log[i].retryAfter = h

FiveBackoffsThenSuccess ==
    /\ Ended
    /\ outcome = "response"
    /\ Len(log) = 6
    /\ First429s(5, Header(<<"1", "2">>))
    /\ waits = <<12, 12, 12, 12, 12>>
    /\ gets = 6

\* C9: a call issues at most 6 GETs (the first and 5 retries) and then
\* returns or raises; 6 consecutive 429 responses yield None after exactly 5
\* retries; `retries` starts at 0 in every call, whatever earlier calls used.
C9_RetriesBoundedPerCall ==
    /\ gets <= 6
    /\ gets = Len(log)
    /\ (fpc = "loop" /\ gets = 0) => retries = 0
    /\ (fpc = "loop" /\ gets = 6) => (retries > MaxRetries /\ ~ENABLED GetStep)
    /\ (Ended /\ Len(log) = 6 /\ \A i \in 1..6 : log[i].status = 429)
          => (outcome = "None" /\ gets = 6)
    /\ (Ended /\ outcome = "None" /\ log[Len(log)].status = 429) => gets = 6

\* a call that exhausts its retries right after a call that exhausted its own
C9_Witness ==
    /\ Ended
    /\ prevRetries = 6
    /\ outcome = "None"
    /\ gets = 6
    /\ \A i \in 1..6 : log[i].status = 429

\* C10: a 403 ends the call at once with None: it is the last response of the
\* call, no wait follows it, and the wrappers return None without raising; a
\* 403 on the first attempt gives zero retries and zero waits.
C10_DeniedAtOnce ==
    /\ \A i \in 1..Len(log) : log[i].status = 403 =>
          /\ i = Len(log)
          /\ Ended
          /\ outcome = "None"
          /\ result = "None"
          /\ gets = i
          /\ Len(waits) = i - 1
          /\ retries = i - 1
    /\ (Len(log) >= 1 /\ log[1].status = 403) => (retries = 0 /\ waits = <<>> /\ gets = 1)

\* download_url_to_bytes denied on the first attempt
C10_Witness ==
    /\ Ended
    /\ wrapper = "bytes"
    /\ log = <<[status |-> 403, retryAfter |-> NoHeader, jsonBody |-> FALSE]>>
    /\ result = "None"
    /\ prevRetries > 0

ClaimedWait(h) ==
    CASE h = Header(<<"2">>)      -> 2
      [] h = Header(<<"1", "2">>) -> 12
      [] OTHER                    -> 10

C18_OnlyTakeOverRenames ==
    pc = "found" =>
        /\ folderExists
        /\ (~takeOver => fs = fs0 /\ renamed = <<>>)
        /\ \A k \in Slots : fs0[k].exists => \E j \in Slots : fs[j] = fs0[k]
        /\ (fs # fs0 =>
                /\ takeOver
                /\ Len(renamed) = 2 /\ renamed[1] = 1
                /\ ~fs0[renamed[2]].exists
                /\ fs[renamed[2]] = fs0[1]
                /\ \A k \in Slots \ {1, renamed[2]} : fs[k] = fs0[k])

\* take-over off, folder/file_name taken by a file of another size, so the
\* call returns a suffixed path and still leaves the files alone
C18_Witness ==
    /\ pc = "found" /\ ~takeOver
    /\ fs0[1].exists /\ Len(fs0[1].data) # Len(content)
    /\ ret >= 2
    /\ fs = fs0

(***************************************************************************)
(* Properties of the library functions called on their own.                *)
(***************************************************************************)
\* a file argument that is a path at which the folder holds no file
NoFileAt(f) == f.kind = "path" /\ ~fs[f.slot].exists

\* the byte length of what a file argument names
ArgLength(f) == IF f.kind = "path" THEN Len(fs[f.slot].data) ELSE Len(f.data)

\* C15: is_identical_file returns False, and does not raise, whenever one of
\* its arguments is a path with no file, for both values of size_only and
\* whatever the other argument is.
C15_MissingPathGivesFalse ==
    (op = "is_identical_file" /\ (NoFileAt(cmp.a) \/ NoFileAt(cmp.b)))
        => (cmp.value = FALSE /\ ~cmp.raised)

\* the second argument is the missing path, the first an existing file, and
\* hashes are compared
C15_Witness ==
    /\ op = "is_identical_file"
    /\ cmp.a.kind = "path" /\ fs[cmp.a.slot].exists
    /\ NoFileAt(cmp.b)
    /\ ~cmp.sizeOnly
    /\ cmp.value = FALSE /\ ~cmp.raised

\* C16: identical_or_same_size_file(a, b) is True exactly when neither side is
\* a path with no file and the two byte lengths are equal, whether or not the
\* bytes are; it is False otherwise, and it does not raise.
C16_TrueIffSameLength ==
    op = "identical_or_same_size_file" =>
        /\ cmp.value = (~NoFileAt(cmp.a) /\ ~NoFileAt(cmp.b) /\ ArgLength(cmp.a) = ArgLength(cmp.b))
        /\ ~cmp.raised

\* a file and a buffer of the same length and different bytes compare True
C16_Witness ==
    /\ op = "identical_or_same_size_file"
    /\ cmp.a.kind = "path" /\ fs[cmp.a.slot].exists
    /\ cmp.b.kind = "bytes"
    /\ Len(cmp.b.data) = Len(fs[cmp.a.slot].data)
    /\ cmp.b.data # fs[cmp.a.slot].data
    /\ cmp.value = TRUE

\* C17: save_contents_to_file with overwrite=False on a path that holds a
\* file returns without writing and leaves every file as it was; on a path
\* that holds no file the folder exists afterwards and the file holds exactly
\* the given bytes, the other files being as they were.
C17_SaveRefusesOrCreates ==
    (op = "save_contents_to_file" /\ ~saveOverwrite) =>
        IF fs0[ret].exists
        THEN saved = "refused" /\ fs = fs0
        ELSE /\ saved = "written"
             /\ folderExists
             /\ fs[ret] = File(content)
             /\ \A k \in Slots \ {ret} : fs[k] = fs0[k]

\* the refused write carried bytes other than the file's
C17_Witness ==
    /\ op = "save_contents_to_file" /\ ~saveOverwrite
    /\ fs0[ret].exists /\ fs0[ret].data # content
    /\ saved = "refused"
    /\ fs[ret] = fs0[ret]

\* the write into a folder that did not exist
SavedIntoNewFolder ==
    /\ op = "save_contents_to_file" /\ ~saveOverwrite
    /\ fs0 = EmptyFolder /\ saved = "written" /\ content # <<>>
    /\ folderExists /\ fs[ret] = File(content)

TallStripCutIntoFour ==
    /\ op = "split_image_into_frames"
    /\ img = [width |-> 120, height |-> 480, frameCount |-> 4]
    /\ frames[3] = <<0, 240, 120, 360>>

(***************************************************************************)
(* Properties of the service downloaders.                                  *)
(***************************************************************************)
\* C12: a fatal (neither 403 nor 429) HTTP error on any fetch of a run aborts
\* the run: once a handler call has met one, the exception has reached the top
\* level, and no handler has gone on to end the item as a per-item failure.
C12_FatalErrorAbortsRun ==
    item.fatal => rpc = "aborted"

\* the failures a handler deals with itself
HandledFailures == {"fetch_none", "no_url", "no_ids", "empty"}

\* C13: every handler call that ends in a handled failure (fetch returned
\* None, no image URL, no outfit asset ids, empty content) has advanced the
\* progress task by one when it ends, in every service.
C13_FailedItemAdvances ==
    (item.ended /\ item.failure \in HandledFailures) => item.advanced = 1

\* C14: a handler call whose image fetch returned zero-length content writes
\* no file: the files are as they were before the call, in every service.
C14_EmptyContentNotSaved ==
    (item.ended /\ item.empty) => (~item.wrote /\ fs = fs0)

(***************************************************************************)
(* Later properties of the fetcher, the placer and the services.           *)
(***************************************************************************)
\* C21: within one download_url_to_raw call every backoff wait is followed by
\* another GET before the call ends: a call that has ended has issued more
\* GETs than it has taken waits (GETs and waits alternate, starting with a GET).
C21_EveryWaitIsFollowedByRetry ==
    Ended => Len(waits) < gets

\* C22: a path returned by find_next_available_file_path, with either
\* take-over setting, holds no file when the call returns; so the save that
\* follows in the find-then-save pipeline never takes its refusal branch.
C22_ReturnedPathIsFree ==
    /\ (pc = "found" /\ ret # None) => ~fs[ret].exists
    /\ saved # "refused"

\* take-over on an occupied folder/file_name: the path returned is the
\* occupied one, freed by the rename, and the save wrote there
C22_Witness ==
    /\ pc = "idle" /\ saved = "written"
    /\ takeOver /\ ret = 1
    /\ fs0[1].exists
    /\ renamed # <<>>
    /\ fs[1] = File(content)

\* C23: _get_image_url_from_roblox_api stops polling by a max-attempts guard:
\* however long the API keeps answering Pending, the function gives up within
\* the MaxPolls Pending answers the model lets the API give, so it is never
\* found having polled MaxPolls times and about to poll again.
C23_PollsBoundedByGuard ==
    rpc = "polling" => polls < MaxPolls

\* C24: from a folder with no file of the base name, after any sequence of
\* find_next_available_file_path calls (either take-over setting), each
\* followed by the save of the same content when a path came back, the files
\* of the base name are name, base_2.ext, ..., base_k.ext with no gap, and no
\* two of them have the same byte length.
C24_NoGapAndDistinctSizes ==
    pc = "idle" =>
        /\ \A k \in Slots : fs[k].exists => \A j \in 1..(k - 1) : fs[j].exists
        /\ \A j \in Slots, k \in Slots :
               (j # k /\ fs[j].exists /\ fs[k].exists) => Len(fs[j].data) # Len(fs[k].data)

\* three files after rounds of both kinds: a plain one, a take-over, a plain one
C24_Witness ==
    /\ pc = "idle"
    /\ Len(hist) = 3
    /\ ~hist[1].takeOver /\ hist[2].takeOver /\ ~hist[3].takeOver
    /\ \A k \in 1..3 : fs[k].exists
    /\ fs[1] = File(hist[2].content)
    /\ fs[2] = File(hist[1].content)
    /\ fs[3] = File(hist[3].content)

\* the buffers of the byte length of b
SameLength(b) == [1..Len(b) -> Byte]

\* the folders that hold files at the slots fsys does, of the same byte
\* lengths, whatever their bytes: built slot by slot up to slot k
RECURSIVE SameShapeUpTo(_, _)
SameShapeUpTo(fsys, k) ==
    IF k = 0 THEN {<<>>}
    ELSE {Append(g, f) : g \in SameShapeUpTo(fsys, k - 1),
                         f \in IF fsys[k].exists
                                THEN {File(b) : b \in SameLength(fsys[k].data)}
                                ELSE {NoFile}}

\* C26: what find_next_available_file_path decides depends only on which
\* files exist and on byte lengths: the call made on any folder with files at
\* the same names and of the same sizes, with any content of the same length,
\* returns the same path or None and does the same rename.
C26_DecisionIgnoresBytes ==
    op = "find_next_available_file_path" =>
        \A g \in SameShapeUpTo(fs0, MaxSlot), c \in SameLength(content) :
            /\ FindReturn(FindDecision(g, c), takeOver) = ret
            /\ FindRename(FindDecision(g, c), takeOver) = renamed

\* None came back although no file held the content's bytes: the file at
\* folder/file_name has the content's length and other bytes
C26_Witness ==
    /\ op = "find_next_available_file_path"
    /\ ret = None
    /\ fs0[1].exists
    /\ Len(fs0[1].data) = Len(content)
    /\ \A k \in Slots : fs0[k].data # content

\* a take-over call whose rename went past a second file
TakeOverPastSecondFile ==
    /\ op = "find_next_available_file_path"
    /\ takeOver /\ renamed = <<1, 3>>
    /\ fs0[2].exists /\ fs0[2].data # fs0[1].data

\* a Mii run whose loops have made all their calls, none of which failed
MiiRunComplete ==
    /\ service \in {"mii", "mii_legacy"}
    /\ rpc = "items"
    /\ items = MiiLoopCalls(miis, saveHd)
    /\ failures = 0

\* C25: in a Mii run in which every fetch succeeds, the progress advances made
\* over the whole run equal the total of _calculate_total_downloads, for every
\* combination of MII_SAVE_ROTATING_FRAMES, MII_SAVE_ROTATING_GIFS and
\* MII_SAVE_HD_IMAGES.
C25_AdvancesEqualTotal ==
    MiiRunComplete => advances = CalculateTotalDownloads(miis, saveHd, saveFrames, saveGifs)

\* the same with at most one of the two rotating flags set
AdvancesEqualTotalUnlessBothFlags ==
    (MiiRunComplete /\ ~(saveFrames /\ saveGifs))
        => advances = CalculateTotalDownloads(miis, saveHd, saveFrames, saveGifs)

\* a complete run with HD images and one rotating flag: 3 calls, 6 advances
CompleteHdRun ==
    /\ MiiRunComplete
    /\ saveHd /\ saveGifs /\ ~saveFrames
    /\ items = 3
    /\ advances = 6

====
